---- MODULE Spec2Model ----
(***************************************************************************)
(* A model of app.py, the one-file Streamlit "Icecat fetch" helper.        *)
(*                                                                         *)
(* Streamlit re-executes the whole script top to bottom on every user      *)
(* interaction.  One re-execution ("pass") is modelled as a walk of pc     *)
(* through the sections of the script; st.stop() ends a pass in "stopped", *)
(* an uncaught exception ends it in "fault", the footer ends it in "done". *)
(* The only store that survives a pass is st.session_state; the widget     *)
(* values (lang, gtin) are the user's current inputs.                      *)
(*                                                                         *)
(* Conventions.  A Python dict is a function whose DOMAIN is its key set.  *)
(* A string that the script formats or parses is a tuple of pieces: an     *)
(* f-string is the tuple of its parts, a URL handed to pathlib is the      *)
(* tuple of its "/"-separated segments.  Other strings are TLA+ strings.   *)
(* The bytes of an HTTP response are identified by the request that        *)
(* fetched them (its position in the pass's request log) and its URL, so   *)
(* that two fetches of one URL are told apart.                             *)
(***************************************************************************)
EXTENDS Integers, Sequences, FiniteSets, TLC

VARIABLES session_state, lang, gtin, clicked, everPressed,
          pc, out, net, resp, data, idx, zf

vars == <<session_state, lang, gtin, clicked, everPressed,
          pc, out, net, resp, data, idx, zf>>

----------------------------------------------------------------------------
(* CONFIGURATION (app.py 14-18)                                            *)

ICECAT_USER == "openIcecat-live"
ICECAT_API == "https://live.icecat.biz/api"
LANGUAGES == [DE |-> "de", NL |-> "nl", EN |-> "en", FR |-> "fr"]
TIMEOUT == 20
MAX_GALLERY == 20

----------------------------------------------------------------------------
(* Bounds of the model                                                     *)

MaxGalleryLen == 22
MaxGroups == 2
MaxMedia == 2

----------------------------------------------------------------------------
(* Python primitives used by the script                                    *)

\* d.get(k, dflt)
Get(d, k, dflt) == IF k \in DOMAIN d THEN d[k] ELSE dflt

\* `a or b` on strings: a when a is truthy (non-empty), else b
Or(a, b) == IF a # "" THEN a ELSE b

\* `d.get(k) or b`: d.get(k) is None (falsy) when k is absent
GetOr(d, k, b) == IF k \in DOMAIN d /\ d[k] # "" THEN d[k] ELSE b

\* str.upper() on the language codes
Upper(s) ==
    CASE s = "de" -> "DE"
      [] s = "nl" -> "NL"
      [] s = "en" -> "EN"
      [] s = "fr" -> "FR"
      [] OTHER -> s

\* seq[:n]
Slice(s, n) == SubSeq(s, 1, IF Len(s) < n THEN Len(s) ELSE n)

\* min(a, b)
Min(a, b) == IF a < b THEN a ELSE b

RECURSIVE LastPart(_)
\* pathlib.Path(url).name: the last "/"-separated component, empty and "."
\* components (doubled or trailing slashes) dropped; "" when none is left
LastPart(segs) ==
    IF Len(segs) = 0 THEN ""
    ELSE IF segs[Len(segs)] \in {"", "."}
         THEN LastPart(SubSeq(segs, 1, Len(segs) - 1))
         ELSE segs[Len(segs)]

PathName(url) == LastPart(url)

\* a dict fragment holding key k when the option v (a tuple of 0 or 1
\* values) is present
Opt(k, v) == IF Len(v) = 0 THEN <<>> ELSE k :> v[1]

OptOf(S) == {<<>>} \cup {<<s>> : s \in S}

SeqsUpTo(S, n) == UNION {[1..k -> S] : k \in 0..n}

----------------------------------------------------------------------------
(* The catalog's possible answers                                          *)

IceHost == <<"https:", "", "images.icecat.biz", "img", "gallery">>

\* full-size picture URLs: plain, with a trailing slash, with a query
PicUrls ==
    << IceHost \o <<"a.jpg">>,
       IceHost \o <<"b.jpg", "">>,
       IceHost \o <<"raw", "c.jpg?v=2">> >>

ThumbUrls == <<"thumb_a.jpg", "thumb_b.jpg", "thumb_c.jpg">>

\* a gallery of n entries; step 0 repeats one picture, step 1 cycles
GalleryOf(n, step) ==
    [i \in 1..n |->
        [ThumbPic |-> ThumbUrls[(((i - 1) * step) % 3) + 1],
         Pic      |-> PicUrls[(((i - 1) * step) % 3) + 1]]]

Galleries == {GalleryOf(n, s) : n \in 0..MaxGalleryLen, s \in {0, 1}}

DocHost == <<"https:", "", "objects.icecat.biz", "objects">>

MediaEntries ==
    { [URL |-> DocHost \o <<"clip.mp4">>, IsVideo |-> TRUE,
       Description |-> "Product video"],
      [URL |-> DocHost \o <<"manual.pdf">>, IsVideo |-> FALSE,
       Description |-> "User manual"],
      [URL |-> DocHost \o <<"leaflet.pdf">>, IsVideo |-> FALSE],
      [URL |-> DocHost \o <<"energy.pdf", "">>, IsVideo |-> FALSE,
       Description |-> ""] }

Multimedias == SeqsUpTo(MediaEntries, MaxMedia)

Feature(n, v) == [Feature |-> [Name |-> [Value |-> n]], PresentationValue |-> v]

FeatureLists ==
    { <<>>,
      <<Feature("Height", "10 cm")>>,
      <<Feature("Height", "10 cm"), Feature("Width", "4 cm")>>,
      <<Feature("Width", "4 cm"), Feature("Height", "10 cm")>>,
      <<Feature("Height", "10 cm"), Feature("Height", "12 cm")>> }

FeatureGroupSet ==
    { [FeatureGroup |-> [Name |-> [Value |-> g]], Features |-> fl] :
        g \in {"Dimensions", "Packaging"}, fl \in FeatureLists }

FeaturesGroupsLists == SeqsUpTo(FeatureGroupSet, MaxGroups)

SummaryDescriptions ==
    { Opt("LongSummaryDescription", l) @@ Opt("ShortSummaryDescription", s) :
        l \in OptOf({"", "Long summary"}), s \in OptOf({"", "Short summary"}) }

Names == [ProductName |-> "Widget X", Brand |-> "Acme"]

BaseSummary ==
    [LongSummaryDescription |-> "Long summary",
     ShortSummaryDescription |-> "Short summary"]

BaseInfo == Names @@ [BrandPartCode |-> "WX-1", SummaryDescription |-> BaseSummary]

GeneralInfos ==
    {Names @@ Opt("SummaryDescription", sd) : sd \in OptOf(SummaryDescriptions)}
    \cup {BaseInfo,
          [Brand |-> "Acme", SummaryDescription |-> BaseSummary],
          [ProductName |-> "Widget X", BrandPartCode |-> "WX-1"]}

BaseImage == [HighPic |-> "high.jpg"]

BaseData ==
    [GeneralInfo |-> BaseInfo, Image |-> BaseImage,
     Gallery |-> GalleryOf(2, 1)]

\* product records: each varies one sub-tree of the record
DataSet ==
    {[GeneralInfo |-> gi] : gi \in GeneralInfos}
    \cup {[GeneralInfo |-> BaseInfo, FeaturesGroups |-> fg] :
            fg \in FeaturesGroupsLists}
    \cup {[GeneralInfo |-> BaseInfo, Gallery |-> g] : g \in Galleries}
    \cup {BaseData @@ [Multimedia |-> m] : m \in Multimedias}
    \cup {[GeneralInfo |-> BaseInfo, Image |-> im, Multimedia |-> m] :
            im \in {[Pic500x500 |-> "p500.jpg", HighPic |-> "high.jpg"],
                    [Pic500x500 |-> "", HighPic |-> ""]},
            m \in Multimedias}
    \cup {[Image |-> BaseImage]}

\* decoded envelopes
Payloads ==
    {[msg |-> "OK", data |-> d] : d \in DataSet}
    \cup {[msg |-> "OK"],
          [msg |-> "Product not found"],
          [msg |-> "", data |-> BaseData],
          [data |-> BaseData]}

\* what requests.get() can come back with: a transport exception, or a
\* response with a status and a body that decodes as JSON or does not
Responses ==
    {[exc |-> e, status |-> 0, json |-> <<>>] :
        e \in {"ConnectionError", "ReadTimeout"}}
    \cup {[exc |-> "", status |-> 200, json |-> <<p>>] : p \in Payloads}
    \cup {[exc |-> "", status |-> s, json |-> <<[msg |-> "OK", data |-> BaseData]>>] :
            s \in {404, 500}}
    \cup {[exc |-> "", status |-> 200, json |-> <<>>]}

NoResp == [exc |-> "", status |-> 0, json |-> <<>>]

----------------------------------------------------------------------------
(* The user's inputs                                                       *)

Gtins == {"", "0882780751682"}

\* the preview buttons the user is taken to click, among those rendered
PreviewChoices == {0, 1, MAX_GALLERY - 1, MAX_GALLERY}

Terminal == {"stopped", "fault", "done"}

Widgets(kind) == SelectSeq(out, LAMBDA w : w.w = kind)

Rendered(kind) == \E i \in 1..Len(out) : out[i].w = kind

----------------------------------------------------------------------------
(* INPUT BAR (app.py 20-36)                                                *)

\* st.button("Fetch"): True only in the pass its click caused
ButtonFetch(ev) == ev.kind = "fetch"

\* variant: the flag is written on every pass
SetDoFetch_always(ss, pressed) == ("do_fetch" :> TRUE) @@ ss

\* variant: the flag is assigned the button's value on every pass
SetDoFetch_assign(ss, pressed) == ("do_fetch" :> pressed) @@ ss

\* line 32-33: the flag is written only when the button was pressed
SetDoFetch(ss, pressed) == IF pressed THEN ("do_fetch" :> TRUE) @@ ss ELSE ss

\* st.session_state.get("do_fetch")
DoFetch(ss) == Get(ss, "do_fetch", FALSE)

InputBarWidgets ==
    << [w |-> "title", body |-> "Icecat fetch -> Smyths helper"],
       [w |-> "selectbox", label |-> "Language", value |-> lang],
       [w |-> "text_input", label |-> "GTIN / EAN", value |-> gtin,
        disabled |-> FALSE],
       [w |-> "button", label |-> "Fetch", key |-> <<>>] >>

InputBar ==
    /\ pc = "input_bar"
    /\ out' = out \o InputBarWidgets
    /\ session_state' = SetDoFetch(session_state, ButtonFetch(clicked))
    /\ pc' = IF DoFetch(session_state') THEN "fetch" ELSE "stopped"
    /\ UNCHANGED <<lang, gtin, clicked, everPressed, net, resp, data, idx, zf>>

----------------------------------------------------------------------------
(* FETCH FROM ICECAT (app.py 41-62)                                        *)

\* variant: the emptiness check is skipped
GtinMissing_never(g) == FALSE

\* line 41: `not gtin`
GtinMissing(g) == g = ""

\* lines 45-48: the request URL, an f-string
url ==
    <<ICECAT_API, "?UserName=", ICECAT_USER,
      "&Language=", Upper(LANGUAGES[lang]), "&GTIN=", gtin>>

\* variant: raise_for_status() is not called
StatusRaises_never(r) == FALSE

\* resp.raise_for_status(): raises on 4xx and 5xx
StatusRaises(r) == r.status >= 400 /\ r.status < 600

\* variant: the envelope's msg is not checked
MsgOk_any(payload) == TRUE

\* line 53: payload.get("msg") == "OK"
MsgOk(payload) == "msg" \in DOMAIN payload /\ payload["msg"] = "OK"

\* str() of the assertion's argument payload.get("msg"): None when absent
AssertText(payload) == IF "msg" \in DOMAIN payload THEN payload["msg"] ELSE "None"

\* lines 49-55: the text of the exception the try block raises, if any;
\* <<>> when the block completes
TryFetch(r) ==
    IF r.exc # "" THEN <<r.exc>>
    ELSE IF StatusRaises(r) THEN <<"HTTPError">>
    ELSE IF Len(r.json) = 0 THEN <<"JSONDecodeError">>
    ELSE IF ~MsgOk(r.json[1]) THEN <<AssertText(r.json[1])>>
    ELSE IF "data" \notin DOMAIN r.json[1] THEN <<"'data'">>
    ELSE <<>>

\* line 56: f"Icecat error -> {exc}"
ErrorText(exc) == <<"Icecat error -> ", exc>>

CatalogRequest(r) ==
    [kind |-> "catalog", url |-> url, timeout |-> TIMEOUT, raised |-> r.exc # ""]

FetchFromIcecat ==
    /\ pc = "fetch"
    /\ IF GtinMissing(gtin)
       THEN /\ out' = Append(out, [w |-> "warning", body |-> <<"Enter a GTIN first.">>])
            /\ pc' = "stopped"
            /\ UNCHANGED <<net, resp, data>>
       ELSE \E r \in Responses :
            /\ net' = Append(net, CatalogRequest(r))
            /\ resp' = r
            /\ LET exc == TryFetch(r) IN
               IF Len(exc) > 0
               THEN /\ out' = Append(out, [w |-> "error", body |-> ErrorText(exc[1])])
                    /\ pc' = "stopped"
                    /\ data' = data
               ELSE /\ data' = r.json[1]["data"]
                    \* line 59: data["GeneralInfo"] is required
                    /\ IF "GeneralInfo" \in DOMAIN data'
                       THEN pc' = "basic_info" /\ out' = out
                       ELSE /\ pc' = "fault"
                            /\ out' = Append(out, [w |-> "exception",
                                                  body |-> <<"KeyError: 'GeneralInfo'">>])
    /\ UNCHANGED <<session_state, lang, gtin, clicked, everPressed, idx, zf>>

\* variant: the gallery is not truncated
gallery_whole == Get(data, "Gallery", <<>>)

info == data["GeneralInfo"]
image_data == Get(data, "Image", <<>>)
media == Get(data, "Multimedia", <<>>)
gallery == Slice(Get(data, "Gallery", <<>>), MAX_GALLERY)

\* the bytes of the response to the k-th request of the pass, made to u
Content(k, u) == [req |-> k, url |-> u]

\* requests.get(u) with no timeout (0 stands for None)
AssetRequest(u, raised) ==
    [kind |-> "asset", url |-> u, timeout |-> 0, raised |-> raised]

\* variant: the exception is swallowed and the script carries on at p
Uncaught_swallowed(p) == p

\* an exception nothing catches ends the pass; p is where it was raised
Uncaught(p) == "fault"

Traceback(text) == [w |-> "exception", body |-> <<text>>]

----------------------------------------------------------------------------
(* 1. BASIC INFO (app.py 64-75)                                            *)

\* variant: the short summary is preferred
short_or_long_summary_short ==
    LET desc == Get(info, "SummaryDescription", <<>>)
    IN  GetOr(desc, "ShortSummaryDescription",
              Get(desc, "LongSummaryDescription", ""))

short_or_long_summary ==
    LET desc == Get(info, "SummaryDescription", <<>>)
    IN  GetOr(desc, "LongSummaryDescription",
              Get(desc, "ShortSummaryDescription", ""))

ReadOnly(label, value) ==
    [w |-> "text_input", label |-> label, value |-> value, disabled |-> TRUE]

BasicInfo ==
    /\ pc = "basic_info"
    /\ LET head == <<[w |-> "expander", label |-> "Basic info"]>>
           name == IF "ProductName" \in DOMAIN info
                   THEN <<ReadOnly("Product name", info["ProductName"])>>
                   ELSE <<>>
           code == <<ReadOnly("Vendor article no.", Get(info, "BrandPartCode", ""))>>
           brand == IF "Brand" \in DOMAIN info
                    THEN <<ReadOnly("Brand", info["Brand"])>>
                    ELSE <<>>
           desc == <<[w |-> "text_area", label |-> "Description",
                      value |-> short_or_long_summary, disabled |-> TRUE]>>
       IN  IF Len(name) = 0
           THEN /\ out' = out \o head \o <<Traceback("KeyError: 'ProductName'")>>
                /\ pc' = Uncaught(pc)
           ELSE IF Len(brand) = 0
           THEN /\ out' = out \o head \o name \o code
                            \o <<Traceback("KeyError: 'Brand'")>>
                /\ pc' = Uncaught(pc)
           ELSE /\ out' = out \o head \o name \o code \o brand \o desc
                /\ pc' = "spec_table"
    /\ UNCHANGED <<session_state, lang, gtin, clicked, everPressed,
                   net, resp, data, idx, zf>>

----------------------------------------------------------------------------
(* 2. SPECIFICATION TABLE (app.py 80-95)                                   *)

RECURSIVE Flatten_reversed(_)
\* variant: the groups are concatenated last to first
Flatten_reversed(ss) ==
    IF Len(ss) = 0 THEN <<>> ELSE Flatten_reversed(Tail(ss)) \o Head(ss)

RECURSIVE Flatten(_)
Flatten(ss) == IF Len(ss) = 0 THEN <<>> ELSE Head(ss) \o Flatten(Tail(ss))

\* lines 82-86: the tuple built for one feature of one group
Row(grp, feat) ==
    <<grp["FeatureGroup"]["Name"]["Value"],
      feat["Feature"]["Name"]["Value"],
      feat["PresentationValue"]>>

\* lines 81-89: for grp in FeaturesGroups for feat in grp["Features"]
rows ==
    LET groups == Get(data, "FeaturesGroups", <<>>)
    IN  Flatten([g \in 1..Len(groups) |->
                   [f \in 1..Len(groups[g]["Features"]) |->
                      Row(groups[g], groups[g]["Features"][f])]])

\* lines 91-94: DataFrame(rows, columns).set_index(["Group", "Feature"])
DataFrame(rs) ==
    [index |-> [i \in 1..Len(rs) |-> <<rs[i][1], rs[i][2]>>],
     Value |-> [i \in 1..Len(rs) |-> rs[i][3]]]

\* line 90: `if rows:`
ShowTable(rs) == Len(rs) > 0

SpecificationTable ==
    /\ pc = "spec_table"
    /\ out' = out \o <<[w |-> "expander", label |-> "Specification table"]>>
                  \o IF ShowTable(rows)
                     THEN <<[w |-> "dataframe", df |-> DataFrame(rows),
                             height |-> Min(500, 35 + 26 * Len(rows))]>>
                     ELSE <<>>
    /\ pc' = "media"
    /\ UNCHANGED <<session_state, lang, gtin, clicked, everPressed,
                   net, resp, data, idx, zf>>

----------------------------------------------------------------------------
(* 3. MEDIA (app.py 100-148)                                               *)

\* line 101; "" stands for a falsy result (None or the empty string)
hero == GetOr(image_data, "Pic500x500", Get(image_data, "HighPic", ""))

\* lines 100-108: the expander, the main image, the gallery header
Media ==
    /\ pc = "media"
    /\ out' = out \o <<[w |-> "expander", label |-> "Media"]>>
                  \o (IF hero # ""
                      THEN <<[w |-> "image", src |-> <<hero>>,
                              caption |-> "Main image"]>>
                      ELSE <<>>)
                  \o (IF Len(gallery) > 0
                      THEN <<[w |-> "markdown", body |-> "#### Gallery"]>>
                      ELSE <<>>)
    /\ idx' = 0
    /\ zf' = <<>>
    /\ pc' = IF Len(gallery) > 0 THEN "gallery" ELSE "multimedia"
    /\ UNCHANGED <<session_state, lang, gtin, clicked, everPressed,
                   net, resp, data>>

\* line 117: st.button(key=f"pv{i}") is True in the pass its click caused
ButtonPreview(ev, i) == ev.kind = "preview" /\ ev.idx = i

\* lines 110-126: one iteration of the gallery loop; each of its two
\* fetches either returns or raises
GalleryEntry ==
    /\ pc = "gallery"
    /\ idx < Len(gallery)
    /\ LET pic   == gallery[idx + 1]
           thumb == pic["ThumbPic"]
           full  == pic["Pic"]
           name  == PathName(full)
           shown == <<[w |-> "image", src |-> <<thumb>>, caption |-> ""],
                      [w |-> "button", label |-> "preview", key |-> <<"pv", idx>>]>>
                    \o (IF ButtonPreview(clicked, idx)
                        THEN <<[w |-> "image", src |-> full, caption |-> name]>>
                        ELSE <<>>)
           k1    == Len(net) + 1
           k2    == Len(net) + 2
           dl    == [w |-> "download_button", label |-> <<"Full">>,
                     data |-> Content(k1, full), file_name |-> <<name>>,
                     mime |-> "image/jpeg", key |-> <<"dl", idx>>]
       IN  \E raise1 \in BOOLEAN, raise2 \in BOOLEAN :
           IF raise1
           THEN /\ ~raise2
                /\ net' = Append(net, AssetRequest(full, TRUE))
                /\ out' = out \o shown \o <<Traceback("requests exception")>>
                /\ pc' = Uncaught(pc)
                /\ UNCHANGED <<idx, zf>>
           ELSE IF raise2
           THEN /\ net' = net \o <<AssetRequest(full, FALSE), AssetRequest(full, TRUE)>>
                /\ out' = out \o shown \o <<dl, Traceback("requests exception")>>
                /\ pc' = Uncaught(pc)
                /\ UNCHANGED <<idx, zf>>
           ELSE /\ net' = net \o <<AssetRequest(full, FALSE), AssetRequest(full, FALSE)>>
                /\ out' = out \o shown \o <<dl>>
                /\ zf' = Append(zf, [name |-> name, data |-> Content(k2, full)])
                /\ idx' = idx + 1
                /\ pc' = pc
    /\ UNCHANGED <<session_state, lang, gtin, clicked, everPressed, resp, data>>

\* lines 128-133: the archive is closed and offered
GalleryZip ==
    /\ pc = "gallery"
    /\ idx = Len(gallery)
    /\ out' = Append(out, [w |-> "download_button",
                           label |-> <<"Download all images (ZIP)">>,
                           data |-> zf, file_name |-> <<gtin, "_images.zip">>,
                           mime |-> "application/zip", key |-> <<>>])
    /\ pc' = "multimedia"
    /\ UNCHANGED <<session_state, lang, gtin, clicked, everPressed,
                   net, resp, data, idx, zf>>

videos == SelectSeq(media, LAMBDA m : m["IsVideo"])
pdfs == SelectSeq(media, LAMBDA m : ~m["IsVideo"])

\* line 145: f"[down] {p.get('Description','PDF') or Path(p['URL']).name}"
PdfLabel(p) == <<"[down] ", Or(Get(p, "Description", "PDF"), PathName(p["URL"]))>>

\* lines 135-142: the partition, the video players, the PDF header
Multimedia ==
    /\ pc = "multimedia"
    /\ out' = out \o (IF Len(videos) > 0
                      THEN <<[w |-> "markdown", body |-> "#### Videos"]>>
                           \o [i \in 1..Len(videos) |->
                                 [w |-> "video", src |-> videos[i]["URL"]]]
                      ELSE <<>>)
                  \o (IF Len(pdfs) > 0
                      THEN <<[w |-> "markdown", body |-> "#### PDFs"]>>
                      ELSE <<>>)
    /\ idx' = 0
    /\ pc' = IF Len(pdfs) > 0 THEN "pdfs" ELSE "footer"
    /\ UNCHANGED <<session_state, lang, gtin, clicked, everPressed,
                   net, resp, data, zf>>

\* lines 143-148: one iteration of the PDF loop
PdfEntry ==
    /\ pc = "pdfs"
    /\ idx < Len(pdfs)
    /\ LET p == pdfs[idx + 1]
           k == Len(net) + 1
       IN  \E raise \in BOOLEAN :
           /\ net' = Append(net, AssetRequest(p["URL"], raise))
           /\ IF raise
              THEN /\ out' = Append(out, Traceback("requests exception"))
                   /\ pc' = Uncaught(pc)
                   /\ idx' = idx
              ELSE /\ out' = Append(out, [w |-> "download_button",
                                          label |-> PdfLabel(p),
                                          data |-> Content(k, p["URL"]),
                                          file_name |-> <<PathName(p["URL"])>>,
                                          mime |-> "", key |-> <<>>])
                   /\ idx' = idx + 1
                   /\ pc' = IF idx' = Len(pdfs) THEN "footer" ELSE pc
    /\ UNCHANGED <<session_state, lang, gtin, clicked, everPressed,
                   resp, data, zf>>

----------------------------------------------------------------------------
(* FOOTER (app.py 153)                                                     *)

Footer ==
    /\ pc = "footer"
    /\ out' = Append(out, [w |-> "caption", body |-> "Icecat -> Smyths helper"])
    /\ pc' = "done"
    /\ UNCHANGED <<session_state, lang, gtin, clicked, everPressed,
                   net, resp, data, idx, zf>>

----------------------------------------------------------------------------
(* The user: every interaction with a widget re-executes the script        *)

Event(kind, i) == [kind |-> kind, idx |-> i]

\* the script starts again from the top with nothing but session_state
\* and the widget values
Rerun(ev, l, g) ==
    /\ clicked' = ev
    /\ lang' = l
    /\ gtin' = g
    /\ everPressed' = (everPressed \/ ev.kind = "fetch")
    /\ pc' = "input_bar"
    /\ out' = <<>>
    /\ net' = <<>>
    /\ resp' = NoResp
    /\ data' = <<>>
    /\ idx' = 0
    /\ zf' = <<>>
    /\ UNCHANGED session_state

PressFetch ==
    /\ pc \in Terminal
    /\ Rerun(Event("fetch", 0), lang, gtin)

ChangeLanguage ==
    /\ pc \in Terminal
    /\ \E l \in DOMAIN LANGUAGES \ {lang} : Rerun(Event("language", 0), l, gtin)

EditGtin ==
    /\ pc \in Terminal
    /\ \E g \in Gtins \ {gtin} : Rerun(Event("gtin", 0), lang, g)

PressPreview ==
    /\ pc \in Terminal
    /\ \E i \in PreviewChoices :
        /\ \E n \in 1..Len(out) : out[n].w = "button" /\ out[n].key = <<"pv", i>>
        /\ Rerun(Event("preview", i), lang, gtin)

PressDownload ==
    /\ pc \in Terminal
    /\ Rendered("download_button")
    /\ Rerun(Event("download", 0), lang, gtin)

----------------------------------------------------------------------------

\* the page is opened: the first pass, session_state empty, the selectbox
\* on its default index=2 (EN), the text input empty
Init ==
    /\ session_state = <<>>
    /\ lang = "EN"
    /\ gtin = ""
    /\ clicked = Event("load", 0)
    /\ everPressed = FALSE
    /\ pc = "input_bar"
    /\ out = <<>>
    /\ net = <<>>
    /\ resp = NoResp
    /\ data = <<>>
    /\ idx = 0
    /\ zf = <<>>

Next ==
    \/ InputBar
    \/ FetchFromIcecat
    \/ BasicInfo
    \/ SpecificationTable
    \/ Media
    \/ GalleryEntry
    \/ GalleryZip
    \/ Multimedia
    \/ PdfEntry
    \/ Footer
    \/ PressFetch
    \/ ChangeLanguage
    \/ EditGtin
    \/ PressPreview
    \/ PressDownload

Spec == Init /\ [][Next]_vars

----------------------------------------------------------------------------
(* Properties                                                              *)

Flag == Get(session_state, "do_fetch", FALSE)

CatalogIssued == \E k \in 1..Len(net) : net[k].kind = "catalog"

SectionRendered == \E i \in 1..Len(out) : out[i].w = "expander"

AssetFetched == \E k \in 1..Len(net) : net[k].kind = "asset"

\* the catalog call of this pass failed: transport exception or timeout,
\* non-success status, undecodable body
CallFailed ==
    \/ resp.exc # ""
    \/ resp.status >= 400
    \/ Len(resp.json) = 0

\* the catalog call of this pass decoded, and its msg is not "OK"
MsgRejected ==
    /\ CatalogIssued
    /\ ~CallFailed
    /\ ("msg" \notin DOMAIN resp.json[1] \/ resp.json[1]["msg"] # "OK")

\* C1 as stated: a pass issues the catalog GET or renders the product
\* sections only if it was caused by pressing Fetch.
C1_OnlyFetchPass ==
    (CatalogIssued \/ SectionRendered) => clicked.kind = "fetch"

\* C1 as amended: a pass issues the catalog GET or renders the product
\* sections only if Fetch was pressed in that pass or in an earlier pass
\* of the session (the flag is set) and the GTIN is not empty; a pass
\* before any Fetch press issues no request.
C1_OnlyAfterFetch ==
    (CatalogIssued \/ SectionRendered) => (everPressed /\ Flag /\ gtin # "")

C1_Witness ==
    /\ CatalogIssued
    /\ SectionRendered
    /\ clicked.kind \in {"language", "gtin", "preview", "download"}

\* C2: in a pass whose GTIN input is empty no network call is made and no
\* section is rendered; once the flag has been read as set, the pass has
\* shown the warning, once, as its last output, and stopped.
C2_EmptyGtin ==
    gtin = "" =>
        /\ net = <<>>
        /\ ~SectionRendered
        /\ (Flag /\ pc \notin {"input_bar", "fetch"}) =>
              /\ pc = "stopped"
              /\ Len(Widgets("warning")) = 1
              /\ out[Len(out)] = [w |-> "warning", body |-> <<"Enter a GTIN first.">>]

C2_Witness ==
    /\ gtin = ""
    /\ Flag
    /\ pc = "stopped"
    /\ Rendered("warning")
    /\ clicked.kind = "gtin"

\* C3 as stated: when the response decodes and its msg is not "OK", the
\* pass halts with an error message equal to the envelope's msg field.
C3_MessageIsMsg ==
    (MsgRejected /\ "msg" \in DOMAIN resp.json[1]) =>
        /\ pc = "stopped"
        /\ \E i \in 1..Len(out) :
              out[i].w = "error" /\ out[i].body = <<resp.json[1]["msg"]>>

\* C3 as amended: when the response decodes and its msg is not "OK", the
\* pass halts with one error message, the fixed prefix "Icecat error -> "
\* followed by the text of the msg field ("None" when the field is
\* absent); no section is rendered and no asset is fetched.
C3_MessageHoldsMsg ==
    MsgRejected =>
        /\ pc = "stopped"
        /\ Widgets("error") =
              <<[w |-> "error",
                 body |-> <<"Icecat error -> ",
                            IF "msg" \in DOMAIN resp.json[1]
                            THEN resp.json[1]["msg"] ELSE "None">>]>>
        /\ ~SectionRendered
        /\ ~AssetFetched

C3_Witness ==
    /\ MsgRejected
    /\ resp.json[1] = [msg |-> "Product not found"]
    /\ pc = "stopped"

\* C4: whatever the kind of failure of the catalog call (transport
\* exception or timeout, non-success status, undecodable body, msg not
\* "OK"), the pass shows exactly one error message and stops, with exactly
\* one catalog GET issued, no section rendered and no asset fetched.
C4_FailureHalts ==
    (CatalogIssued /\ (CallFailed \/ MsgRejected)) =>
        /\ pc = "stopped"
        /\ Len(Widgets("error")) = 1
        /\ out[Len(out)].w = "error"
        /\ Len(net) = 1
        /\ ~SectionRendered
        /\ ~Rendered("exception")

C4_Witness ==
    /\ CatalogIssued
    /\ resp.status = 404
    /\ pc = "stopped"
    /\ Rendered("error")

\* the path basename of the picture URLs the catalog supplies
Basename(u) ==
    CASE u = PicUrls[1] -> "a.jpg"
      [] u = PicUrls[2] -> "b.jpg"
      [] u = PicUrls[3] -> "c.jpg?v=2"

GalleryWidget(w) ==
    /\ w.w \in {"button", "download_button"}
    /\ Len(w.key) = 2

\* C5: the archive offered by the bundle download holds exactly
\* min(n, 20) entries for a gallery of n, the i-th named by the basename
\* of the i-th entry's full-size URL and holding the bytes a request of
\* this pass fetched from that URL; no entry past the 20th is displayed
\* or fetched.
C5_ZipContents ==
    LET G == Get(data, "Gallery", <<>>)
        n == IF Len(G) < 20 THEN Len(G) ELSE 20
    IN  /\ \A i \in 1..Len(out) :
            (out[i].w = "download_button" /\ out[i].mime = "application/zip") =>
                /\ Len(out[i].data) = n
                /\ \A j \in 1..n :
                    LET e == out[i].data[j] IN
                    /\ e.name = Basename(G[j]["Pic"])
                    /\ e.data.url = G[j]["Pic"]
                    /\ e.data.req \in 1..Len(net)
                    /\ net[e.data.req] = [kind |-> "asset", url |-> G[j]["Pic"],
                                          timeout |-> 0, raised |-> FALSE]
        /\ \A i \in 1..Len(out) : GalleryWidget(out[i]) => out[i].key[2] < 20
        /\ pc \in {"gallery", "multimedia"} => Len(net) <= 1 + 2 * n

C5_Witness ==
    /\ pc = "done"
    /\ Len(Get(data, "Gallery", <<>>)) > 20
    /\ \E i \in 1..Len(out) :
          out[i].w = "download_button" /\ out[i].mime = "application/zip"

\* the summaries of the record being rendered
Summary == Get(data["GeneralInfo"], "SummaryDescription", <<>>)
HasLong == "LongSummaryDescription" \in DOMAIN Summary
HasShort == "ShortSummaryDescription" \in DOMAIN Summary

\* C6 as stated: both summaries present, the description is the long one;
\* only the short one present, it is the short one; neither, it is empty.
C6_LongWhenPresent ==
    \A i \in 1..Len(out) :
        out[i].w = "text_area" =>
            /\ (HasLong /\ HasShort) =>
                  out[i].value = Summary["LongSummaryDescription"]
            /\ (~HasLong /\ HasShort) =>
                  out[i].value = Summary["ShortSummaryDescription"]
            /\ (~HasLong /\ ~HasShort) => out[i].value = ""

\* C6 as amended: the description is the long summary when it is present
\* and not empty; otherwise (long absent or empty) it is the short summary
\* when that is present, and the empty string when it is not.
C6_LongWhenNonEmpty ==
    \A i \in 1..Len(out) :
        out[i].w = "text_area" =>
            LET long == HasLong /\ Summary["LongSummaryDescription"] # "" IN
            /\ long => out[i].value = Summary["LongSummaryDescription"]
            /\ (~long /\ HasShort) =>
                  out[i].value = Summary["ShortSummaryDescription"]
            /\ (~long /\ ~HasShort) => out[i].value = ""

C6_Witness ==
    /\ Rendered("text_area")
    /\ HasLong
    /\ HasShort
    /\ Summary["LongSummaryDescription"] = ""
    /\ Summary["ShortSummaryDescription"] = "Short summary"

\* the filename of the document URLs the catalog supplies
DocName(u) ==
    CASE u = DocHost \o <<"clip.mp4">> -> "clip.mp4"
      [] u = DocHost \o <<"manual.pdf">> -> "manual.pdf"
      [] u = DocHost \o <<"leaflet.pdf">> -> "leaflet.pdf"
      [] u = DocHost \o <<"energy.pdf", "">> -> "energy.pdf"

\* C7: in a completed pass every Multimedia entry is rendered in the
\* partition of its IsVideo flag, and the label of each PDF button is the
\* entry's Description if it has one, otherwise the filename of its URL,
\* and "PDF" only when that is empty too.
C7_PdfLabels ==
    pc = "done" =>
        LET M == Get(data, "Multimedia", <<>>)
            V == SelectSeq(M, LAMBDA m : m["IsVideo"])
            P == SelectSeq(M, LAMBDA m : ~m["IsVideo"])
            players == Widgets("video")
            buttons == SelectSeq(out, LAMBDA w :
                          w.w = "download_button" /\ w.mime = "")
        IN  /\ Len(players) = Len(V)
            /\ Len(buttons) = Len(P)
            /\ \A i \in 1..Len(V) : players[i].src = V[i]["URL"]
            /\ \A i \in 1..Len(P) :
                  buttons[i].label[2] =
                      IF "Description" \in DOMAIN P[i] /\ P[i]["Description"] # ""
                      THEN P[i]["Description"]
                      ELSE IF DocName(P[i]["URL"]) # ""
                           THEN DocName(P[i]["URL"])
                           ELSE "PDF"

RECURSIVE RowsBefore(_, _)
\* the number of (group, feature) pairs in the first g groups of FG
RowsBefore(FG, g) ==
    IF g = 0 THEN 0 ELSE RowsBefore(FG, g - 1) + Len(FG[g]["Features"])

\* C8: once the specification section has run, the table has one row per
\* (group, feature) pair of FeaturesGroups, groups in order and features
\* in order within each group, each holding the feature's
\* PresentationValue; with no pair at all no table is rendered.
C8_TableRows ==
    (\E i \in 1..Len(out) :
        out[i].w = "expander" /\ out[i].label = "Specification table") =>
        LET FG == Get(data, "FeaturesGroups", <<>>)
            tables == Widgets("dataframe")
        IN  IF RowsBefore(FG, Len(FG)) = 0
            THEN Len(tables) = 0
            ELSE /\ Len(tables) = 1
                 /\ Len(tables[1].df.index) = RowsBefore(FG, Len(FG))
                 /\ Len(tables[1].df.Value) = RowsBefore(FG, Len(FG))
                 /\ \A g \in 1..Len(FG) :
                      \A f \in 1..Len(FG[g]["Features"]) :
                         LET r == RowsBefore(FG, g - 1) + f
                             feat == FG[g]["Features"][f]
                         IN  /\ tables[1].df.index[r] =
                                  <<FG[g]["FeatureGroup"]["Name"]["Value"],
                                    feat["Feature"]["Name"]["Value"]>>
                             /\ tables[1].df.Value[r] = feat["PresentationValue"]

C8_Witness ==
    /\ Rendered("dataframe")
    /\ Len(Get(data, "FeaturesGroups", <<>>)) = 2
    /\ data["FeaturesGroups"][1]["FeatureGroup"]["Name"]["Value"] = "Packaging"
    /\ data["FeaturesGroups"][2]["FeatureGroup"]["Name"]["Value"] = "Dimensions"
    /\ Len(data["FeaturesGroups"][1]["Features"]) = 2
    /\ Len(data["FeaturesGroups"][2]["Features"]) = 2

ZipOffered ==
    \E i \in 1..Len(out) :
        out[i].w = "download_button" /\ out[i].mime = "application/zip"

\* C9: an asset fetch that fails is the last thing its pass does: the
\* pass ends in an uncaught fault whose traceback is the last output, no
\* request follows the failed one, and when the failure is a gallery
\* image's neither the ZIP download nor any video or PDF widget is
\* rendered.
C9_AssetFailureAborts ==
    \A k \in 1..Len(net) :
        (net[k].kind = "asset" /\ net[k].raised) =>
            /\ k = Len(net)
            /\ pc = "fault"
            /\ out[Len(out)].w = "exception"
            /\ Len(Widgets("exception")) = 1
            /\ ~Rendered("caption")
            /\ net[k].url[3] = "images.icecat.biz" =>
                  /\ ~ZipOffered
                  /\ ~Rendered("video")
                  /\ \A i \in 1..Len(out) :
                        out[i].w = "download_button" => out[i].mime = "image/jpeg"

C9_Witness ==
    /\ pc = "fault"
    /\ Len(net) = 3
    /\ net[3].raised
    /\ net[3].url[3] = "images.icecat.biz"
    /\ Len(Get(data, "Gallery", <<>>)) = 2
    /\ Len(Get(data, "Multimedia", <<>>)) = 2

\* C10: the fetch-requested flag is unset when the session starts, is
\* never cleared, and is set only by the input bar of a pass that Fetch
\* caused; a new pass starts with nothing of the previous one but the
\* flag.
C10_FlagMonotonic ==
    /\ ~Flag
    /\ [][ /\ Flag => Get(session_state', "do_fetch", FALSE)
           /\ (~Flag /\ Get(session_state', "do_fetch", FALSE)) =>
                 (pc = "input_bar" /\ clicked.kind = "fetch")
           /\ (pc \in Terminal /\ pc' = "input_bar") =>
                 /\ session_state' = session_state
                 /\ out' = <<>> /\ net' = <<>> /\ zf' = <<>>
                 /\ data' = <<>> /\ resp' = NoResp /\ idx' = 0
         ]_vars

C10_Witness ==
    /\ Flag
    /\ pc = "fault"
    /\ clicked.kind = "download"

====
